---------------------------- MODULE Spec2Model ----------------------------
(***************************************************************************)
(* Model of corro-types: the per-actor version ledger (Booked, BookWriter), *)
(* the actor registry (Bookie) and the wire message codec (Message).        *)
(*                                                                         *)
(* Five specifications share the variables:                                *)
(*   SpecLedger  one thread calling the ledger / registry API on one actor, *)
(*               with the full set of version states;                      *)
(*   Spec        several tasks calling the API concurrently, every lock    *)
(*               acquisition a step of its own;                            *)
(*   SpecApi     the calls of Spec that keep no handle, under fair          *)
(*               scheduling of the tasks;                                  *)
(*   SpecCodec   Message::encode / Message::decode over byte buffers, with  *)
(*               the CRC-32 computed bit for bit;                           *)
(*   SpecDispatch  the engine's calls into DispatchRuntime and the         *)
(*               receivers of its three channels.                          *)
(***************************************************************************)
EXTENDS Integers, Sequences, FiniteSets, TLC

(***************************************************************************)
(* Bounds                                                                  *)
(***************************************************************************)
MaxVersion == 3

MaxCalls == 4

Versions == 1..MaxVersion

(***************************************************************************)
(* KnownDbVersion (agent.rs 130-143).  One record shape for the three      *)
(* variants; the fields a variant does not have are 0 / {}.                *)
(***************************************************************************)
Current(db, l, t) ==
    [tag |-> "Current", db_version |-> db, seqs |-> {}, last_seq |-> l, ts |-> t]

Partial(s, l, t) ==
    [tag |-> "Partial", db_version |-> 0, seqs |-> s, last_seq |-> l, ts |-> t]

Cleared ==
    [tag |-> "Cleared", db_version |-> 0, seqs |-> {}, last_seq |-> 0, ts |-> 0]

\* The version states the callers pass in.  The Partial ones: two fragments
\* of one changeset (last_seq 1, ts 1), and a fragment that differs from them
\* in last_seq only, and one that differs in ts only.
PartialInputs ==
    { Partial({0}, 1, 1), Partial({1}, 1, 1), Partial({0}, 2, 1), Partial({0}, 1, 2) }

DbVersions == {1, 2}

CurrentInputs == { Current(d, 0, 1) : d \in DbVersions }

(***************************************************************************)
(* BookedVersions = RangeInclusiveMap<i64, KnownDbVersion> (agent.rs 145). *)
(* A map is the set of its stored (range, value) entries.                  *)
(***************************************************************************)
Entry(s, e, v) == [start |-> s, end |-> e, val |-> v]

EmptyMap == {}

\* RangeInclusiveMap::get_key_value(&version): the stored entries covering it
\* (at most one, ranges never overlap).
get_key_value(m, version) == { r \in m : r.start <= version /\ version <= r.end }

\* RangeInclusiveMap::contains_key(&version)
contains_key(m, version) == get_key_value(m, version) # {}

SetMax(S) == CHOOSE x \in S : \A y \in S : y <= x

None == 0

\* last() taking each stored range's start instead of its end.
last_end_FromStart(m) == IF m = {} THEN None ELSE SetMax({ r.start : r \in m })

\* iter().map(|(k, _v)| *k.end()).max(); None is 0 (versions start at 1)
last_end(m) == IF m = {} THEN None ELSE SetMax({ r.end : r \in m })

\* RangeInclusiveMap::insert(version..=version, value): the inserted range
\* replaces what it overlaps (an entry around it is split), and is coalesced
\* with entries that touch it and map to an equal value.
RangeMapInsert(m, version, value) ==
    LET cut == UNION { ( IF r.start <= version /\ version <= r.end
                         THEN ( IF r.start < version
                                THEN {Entry(r.start, version - 1, r.val)} ELSE {} )
                              \cup
                              ( IF version < r.end
                                THEN {Entry(version + 1, r.end, r.val)} ELSE {} )
                         ELSE {r} ) : r \in m }
        left  == { r \in cut : r.end = version - 1 /\ r.val = value }
        right == { r \in cut : r.start = version + 1 /\ r.val = value }
        lo == IF left = {} THEN version ELSE (CHOOSE r \in left : TRUE).start
        hi == IF right = {} THEN version ELSE (CHOOSE r \in right : TRUE).end
    IN  ((cut \ left) \ right) \cup {Entry(lo, hi, value)}

\* The value a map holds at a version (NoValue when it holds none).
NoValue == [tag |-> "None", db_version |-> 0, seqs |-> {}, last_seq |-> 0, ts |-> 0]

ValueAt(m, version) ==
    IF contains_key(m, version)
    THEN (CHOOSE r \in get_key_value(m, version) : TRUE).val
    ELSE NoValue


(***************************************************************************)
(* Bytes and 32-bit words.  A u32 is kept as its two 16-bit halves          *)
(* [hi, lo]; an i64 as its four 16-bit limbs, least significant first, in   *)
(* two's complement.                                                        *)
(***************************************************************************)
RECURSIVE Xor(_, _)
\* bitwise exclusive or of two naturals
Xor(a, b) ==
    IF a = 0 THEN b
    ELSE IF b = 0 THEN a
    ELSE (((a % 2) + (b % 2)) % 2) + 2 * Xor(a \div 2, b \div 2)

U32(n) == [hi |-> n \div 65536, lo |-> n % 65536]

RECURSIVE XorRow(_, _, _)
\* << Xor(a, from), .., Xor(a, to) >>
XorRow(a, from, to) ==
    IF from = to THEN << Xor(a, from) >>
    ELSE LET mid == (from + to) \div 2
         IN  XorRow(a, from, mid) \o XorRow(a, mid + 1, to)

RECURSIVE XorRows(_, _)
XorRows(from, to) ==
    IF from = to THEN << XorRow(from, 0, 255) >>
    ELSE LET mid == (from + to) \div 2
         IN  XorRows(from, mid) \o XorRows(mid + 1, to)

\* exclusive or of two bytes, tabulated: XorTable[a + 1][b + 1]
XorTable == XorRows(0, 255)

XorByte(a, b) == XorTable[a + 1][b + 1]

Xor16(a, b) == XorByte(a \div 256, b \div 256) * 256 + XorByte(a % 256, b % 256)

XorU32(x, y) == [hi |-> Xor16(x.hi, y.hi), lo |-> Xor16(x.lo, y.lo)]

\* BufMut::put_u32 / Buf::get_u32: big-endian
put_u32(x) == << x.hi \div 256, x.hi % 256, x.lo \div 256, x.lo % 256 >>

get_u32(b) == [hi |-> b[1] * 256 + b[2], lo |-> b[3] * 256 + b[4]]

\* speedy's default context is little-endian
U32LE(x) == << x.lo % 256, x.lo \div 256, x.hi % 256, x.hi \div 256 >>

ReadU32LE(b) == [hi |-> b[4] * 256 + b[3], lo |-> b[2] * 256 + b[1]]

\* the limbs most significant byte first
I64LE_BigEndian(v) ==
    << v[4] \div 256, v[4] % 256, v[3] \div 256, v[3] % 256,
       v[2] \div 256, v[2] % 256, v[1] \div 256, v[1] % 256 >>

I64LE(v) ==
    << v[1] % 256, v[1] \div 256, v[2] % 256, v[2] \div 256,
       v[3] % 256, v[3] \div 256, v[4] % 256, v[4] \div 256 >>

ReadI64LE(b) ==
    << b[2] * 256 + b[1], b[4] * 256 + b[3], b[6] * 256 + b[5], b[8] * 256 + b[7] >>

(***************************************************************************)
(* crc32fast::hash: CRC-32 (IEEE 802.3), reflected polynomial EDB88320,     *)
(* register preset to FFFFFFFF and complemented at the end.                 *)
(***************************************************************************)
CrcPoly == [hi |-> 60856, lo |-> 33568]

AllOnes == [hi |-> 65535, lo |-> 65535]

ShiftRight(x, k) ==
    [hi |-> x.hi \div (2 ^ k), lo |-> (x.lo \div (2 ^ k)) + (x.hi % (2 ^ k)) * (2 ^ (16 - k))]

CrcBit(x) == IF x.lo % 2 = 1 THEN XorU32(ShiftRight(x, 1), CrcPoly) ELSE ShiftRight(x, 1)

CrcEntry(i) == CrcBit(CrcBit(CrcBit(CrcBit(CrcBit(CrcBit(CrcBit(CrcBit(U32(i)))))))))

RECURSIVE CrcEntries(_, _)
CrcEntries(from, to) ==
    IF from = to THEN << CrcEntry(from) >>
    ELSE LET mid == (from + to) \div 2
         IN  CrcEntries(from, mid) \o CrcEntries(mid + 1, to)

\* the byte-wise table: CrcTable[i + 1] is the register after the eight
\* steps that consume byte i
CrcTable == CrcEntries(0, 255)

CrcByte(x, byte) == XorU32(ShiftRight(x, 8), CrcTable[XorByte(x.lo % 256, byte) + 1])

RECURSIVE CrcFold(_, _, _, _)
\* the register x after bytes[i..to]; the test settles each step's register
\* before the next step reads it
CrcFold(x, bytes, i, to) ==
    IF i > to THEN x
    ELSE LET y == CrcByte(x, bytes[i])
         IN  IF y.hi >= 0 THEN CrcFold(y, bytes, i + 1, to) ELSE y

RECURSIVE CrcBlocks(_, _, _)
\* the register x after bytes[i..], taken sixteen bytes at a time
CrcBlocks(x, bytes, i) ==
    IF i > Len(bytes) THEN x
    ELSE LET to == IF i + 15 < Len(bytes) THEN i + 15 ELSE Len(bytes)
             y == CrcFold(x, bytes, i, to)
         IN  IF y.hi >= 0 THEN CrcBlocks(y, bytes, i + 16) ELSE y

crc32(bytes) == XorU32(CrcBlocks(AllOnes, bytes, 1), AllOnes)

(***************************************************************************)
(* Messages and their serialization (derive(Readable, Writable) of speedy): *)
(* a u32 variant tag for Message::V1, a u32 variant tag for                 *)
(* MessageV1::Change, then the fields in declaration order; a Vec is a u32  *)
(* count followed by its items.  ActorId and Change belong to other modules *)
(* of the crate: each is taken as an opaque fixed-size run of bytes.        *)
(***************************************************************************)
ActorIdLen == 2
ChangeLen == 1

ActorIdBytes(actor_id) == actor_id

ChangeBytes(change) == change

Change(actor_id, version, changeset) ==
    [actor_id |-> actor_id, version |-> version, changeset |-> changeset]

\* i64 values as limbs: 0, -1, i64::MIN, and 0x0102030405060708
I64Zero == <<0, 0, 0, 0>>
I64MinusOne == <<65535, 65535, 65535, 65535>>
I64Min == <<0, 0, 0, 32768>>
I64Mixed == <<1800, 1286, 772, 258>>

Messages ==
    { Change([i \in 1..ActorIdLen |-> 17], I64Zero, <<>>),
      Change([i \in 1..ActorIdLen |-> 160 + i], I64MinusOne,
             << [i \in 1..ChangeLen |-> 200 + i] >>),
      Change([i \in 1..ActorIdLen |-> 17], I64Mixed,
             << [i \in 1..ChangeLen |-> 0], [i \in 1..ChangeLen |-> 200 + i] >>) }

NoMessage == Change(<<>>, I64Zero, <<>>)

RECURSIVE Flatten(_)
Flatten(ss) == IF ss = <<>> THEN <<>> ELSE Head(ss) \o Flatten(Tail(ss))

\* Writable::write_to_stream
write_to_stream(m) ==
    U32LE(U32(0)) \o U32LE(U32(0))
      \o ActorIdBytes(m.actor_id)
      \o I64LE(m.version)
      \o U32LE(U32(Len(m.changeset)))
      \o Flatten([i \in 1..Len(m.changeset) |-> ChangeBytes(m.changeset[i])])

Drop(b, n) == SubSeq(b, n + 1, Len(b))

Take(b, n) == SubSeq(b, 1, n)

\* Readable::read_from_buffer: [ok, msg]; bytes after the value are ignored
from_slice(slice) ==
    LET bad == [ok |-> FALSE, msg |-> NoMessage]
        fixed == 8 + ActorIdLen + 8 + 4
    IN  IF Len(slice) < 4 THEN bad
        ELSE IF ReadU32LE(Take(slice, 4)) # U32(0) THEN bad
        ELSE IF Len(slice) < 8 THEN bad
        ELSE IF ReadU32LE(Take(Drop(slice, 4), 4)) # U32(0) THEN bad
        ELSE IF Len(slice) < fixed THEN bad
        ELSE LET actor_id == Take(Drop(slice, 8), ActorIdLen)
                 version == ReadI64LE(Take(Drop(slice, 8 + ActorIdLen), 8))
                 count == ReadU32LE(Take(Drop(slice, 16 + ActorIdLen), 4))
                 items == Drop(slice, fixed)
             IN  IF count.hi # 0 \/ count.lo * ChangeLen > Len(items) THEN bad
                 ELSE [ok |-> TRUE,
                       msg |-> Change(actor_id, version,
                                  [i \in 1..count.lo |->
                                      Take(Drop(items, (i - 1) * ChangeLen), ChangeLen)])]

(***************************************************************************)
(* LengthDelimitedCodec with a 4-byte big-endian length field and the       *)
(* builder's default max_frame_length of 8 MiB.                             *)
(***************************************************************************)
max_frame_length == 8388608

TooBig(n) == n.hi > 128 \/ (n.hi = 128 /\ n.lo > 0)

CodecHead == [state |-> "Head", n |-> 0]

CodecData(n) == [state |-> "Data", n |-> n]

\* Encoder::encode(data, dst): [err, dst]
codec_encode(data, dst) ==
    IF Len(data) > max_frame_length
    THEN [err |-> TRUE, dst |-> dst]
    ELSE [err |-> FALSE, dst |-> dst \o put_u32(U32(Len(data))) \o data]

\* Decoder::decode(src): [kind, frame, codec, src] with kind "Frame", "None" or "Io"
codec_decode(codec, src) ==
    LET none(c, b) == [kind |-> "None", frame |-> <<>>, codec |-> c, src |-> b]
        data(n, b) ==
            IF Len(b) < n THEN none(CodecData(n), b)
            ELSE [kind |-> "Frame", frame |-> Take(b, n), codec |-> CodecHead, src |-> Drop(b, n)]
    IN  IF codec.state = "Head"
        THEN IF Len(src) < 4 THEN none(codec, src)
             ELSE LET n == get_u32(Take(src, 4))
                  IN  IF TooBig(n)
                      THEN [kind |-> "Io", frame |-> <<>>, codec |-> codec, src |-> src]
                      ELSE data(n.hi * 65536 + n.lo, Drop(src, 4))
        ELSE data(codec.n, src)

(***************************************************************************)
(* Message::encode, Message::from_buf, Message::decode                      *)
(***************************************************************************)
\* what a call returns: kind is "Some", "None", "Corrupted", "Decode", "Io",
\* or "panic" when the call did not return
Outcome(kind, msg, crc, new_crc) ==
    [kind |-> kind, msg |-> msg, crc |-> crc, new_crc |-> new_crc]

Plain(kind) == Outcome(kind, NoMessage, U32(0), U32(0))

\* a checksum that also covers the frame's length prefix
CrcInput_WithLength(m, buf) ==
    put_u32(U32(Len(buf \o write_to_stream(m)) + 4)) \o buf \o write_to_stream(m)

CrcInput(m, buf) == buf \o write_to_stream(m)

\* [err, buf]
encode(m, buf) ==
    LET bytes == buf \o write_to_stream(m)
        hash == crc32(CrcInput(m, buf))
    IN  LET r == codec_encode(bytes \o put_u32(hash), <<>>)
        IN  [err |-> r.err, buf |-> r.dst]

\* as from_buf, without the comparison of the two CRCs
from_buf_NoCrcCheck(buf) ==
    LET len == Len(buf)
    IN  IF len < 4 THEN Plain("panic")
        ELSE LET r == from_slice(Take(buf, len - 4))
             IN  IF r.ok THEN Outcome("Some", r.msg, U32(0), U32(0))
                 ELSE Plain("Decode")

from_buf(buf) ==
    LET len == Len(buf)
    IN  IF len < 4 THEN Plain("panic")
        ELSE LET crc == get_u32(Drop(buf, len - 4))
                 rest == Take(buf, len - 4)
                 new_crc == crc32(rest)
             IN  IF crc # new_crc THEN Outcome("Corrupted", NoMessage, crc, new_crc)
                 ELSE LET r == from_slice(rest)
                      IN  IF r.ok THEN Outcome("Some", r.msg, U32(0), U32(0))
                          ELSE Plain("Decode")

\* as decode, but a frame that from_buf rejects stays in the buffer
decode_KeepsBadFrame(codec, buf) ==
    LET d == codec_decode(codec, buf)
        out == CASE d.kind = "Io" -> Plain("Io")
                 [] d.kind = "None" -> Plain("None")
                 [] OTHER -> from_buf(d.frame)
    IN  IF out.kind = "Corrupted"
        THEN [out |-> out, codec |-> codec, buf |-> buf]
        ELSE [out |-> out, codec |-> d.codec, buf |-> d.src]

\* [out, codec, buf]
decode(codec, buf) ==
    LET d == codec_decode(codec, buf)
    IN  [out |-> CASE d.kind = "Io" -> Plain("Io")
                   [] d.kind = "None" -> Plain("None")
                   [] OTHER -> from_buf(d.frame),
         codec |-> d.codec, buf |-> d.src]

(***************************************************************************)
(* Tasks, actors and ledgers                                               *)
(***************************************************************************)
Tasks == {"t1", "t2", "t3"}

Actors == {"A", "B"}

\* The thread and the actor of the single-threaded specification.
MainTask == "t1"

MainActor == "A"

\* Ledgers are numbered in the order Booked::default() allocates them.  The
\* registry allocates one per actor; one more number is kept, so that "one
\* ledger per actor" is something the model can break.
LedgerIds == 1..(Cardinality(Actors) + 1)

NoTask == "none"

\* parking_lot::RwLock: the writer holding it, the readers holding it, and the
\* writer that has announced itself and waits for the readers to leave.
Unlocked == [w |-> NoTask, r |-> {}, pw |-> NoTask]

VARIABLES
    registry,    \* Bookie: actor -> ledger id, None when the actor is unknown
    ledgers,     \* ledger id -> BookedVersions
    nLedgers,    \* ledgers allocated so far
    regLock,     \* the registry's RwLock
    ledLock,     \* ledger id -> that ledger's RwLock
    pc,          \* task -> where it is in its current call
    arg,         \* task -> arguments of its current call
    handle,      \* task -> the Booked it got from for_actor (None: none yet)
    handleFor,   \* task -> the actor it asked for_actor for
    res,         \* task -> what its last completed call returned
    calls,       \* calls the tasks have begun
    inserted,    \* history: ledger id -> versions whose insert completed
    incCurrent,  \* history: ledger id -> only Current states at strictly
                 \*          increasing versions were inserted so far
    buf,         \* the BytesMut the sender encodes into
    rx,          \* the BytesMut the receiver decodes from
    codec,       \* the receiver's LengthDelimitedCodec
    outs,        \* history: what each Message::decode call returned, in order
    frames,      \* frames put on the wire so far
    flipped,     \* a bit was inverted in transit
    active,      \* DispatchRuntime.active
    chan,        \* channel name -> the items queued in it, oldest first
    errs,        \* channel name -> its "corrosion.channel.error" counter
    passed,      \* history: channel name -> what the engine passed, in call
                 \*          order, and whether the channel was full then
    taken,       \* history: channel name -> what the receiver took, in order
    dcalls       \* calls the engine has made

ledgerVars ==
    <<registry, ledgers, nLedgers, regLock, ledLock, pc, arg, handle, handleFor,
      res, calls, inserted, incCurrent>>

codecVars == <<buf, rx, codec, outs, frames, flipped>>

dispatchVars == <<active, chan, errs, passed, taken, dcalls>>

vars == <<ledgerVars, codecVars, dispatchVars>>

(***************************************************************************)
(* Results of a call                                                       *)
(***************************************************************************)
\* q is the version a contains() call asked about.
Ok == [kind |-> "ok", msg |-> "", val |-> 0, q |-> 0]

Panic(m) == [kind |-> "panic", msg |-> m, val |-> 0, q |-> 0]

Bool(b, v) == [kind |-> "bool", msg |-> "", val |-> IF b THEN 1 ELSE 0, q |-> v]

Opt(v) == [kind |-> "opt", msg |-> "", val |-> v, q |-> 0]

NoArg == [actor |-> "", version |-> 0, state |-> NoValue]

(***************************************************************************)
(* RwLock                                                                  *)
(***************************************************************************)
\* read(): granted unless a writer holds the lock or waits for it.
CanRead(lock) == lock.w = NoTask /\ lock.pw = NoTask

\* write() by t: granted when nobody holds the lock and no other writer
\* waits for it.
CanWrite(lock, t) == lock.w = NoTask /\ lock.r = {} /\ lock.pw \in {NoTask, t}

\* write() while readers hold the lock: the writer announces itself.
CanPend(lock) == lock.w = NoTask /\ lock.pw = NoTask /\ lock.r # {}

ReadLocked(lock, t) == [lock EXCEPT !.r = @ \cup {t}]

\* a read guard that is never released
ReadUnlocked_Kept(lock, t) == lock

ReadUnlocked(lock, t) == [lock EXCEPT !.r = @ \ {t}]

\* a write() that returns without holding the lock
WriteLocked_NotHeld(t) == Unlocked

WriteLocked(t) == [w |-> t, r |-> {}, pw |-> NoTask]

(***************************************************************************)
(* BookWriter::insert (agent.rs 180-205) as a function of the map: the     *)
(* panic it raises ("" when none) and the map it leaves.  The first         *)
(* definition is the variant without the timestamp comparison.              *)
(***************************************************************************)
BookWriterInsertOutcome_NoTsCheck(m, version, known_version) ==
    IF known_version.tag = "Partial" /\ contains_key(m, version)
    THEN LET kv == CHOOSE r \in get_key_value(m, version) : TRUE
         IN  IF kv.start # kv.end
             THEN [panic |-> "unexpected range key", map |-> m]
             ELSE IF kv.val.tag = "Partial"
             THEN IF kv.val.last_seq # known_version.last_seq
                  THEN [panic |-> "divergent last_seq", map |-> m]
                  ELSE [panic |-> "",
                        map |-> RangeMapInsert(m, version,
                                  Partial(known_version.seqs \cup kv.val.seqs,
                                          known_version.last_seq, known_version.ts))]
             ELSE [panic |-> "unexpected non-partial booked value", map |-> m]
    ELSE [panic |-> "", map |-> RangeMapInsert(m, version, known_version)]

BookWriterInsertOutcome(m, version, known_version) ==
    IF known_version.tag = "Partial" /\ contains_key(m, version)
    THEN LET kv == CHOOSE r \in get_key_value(m, version) : TRUE
         IN  IF kv.start # kv.end
             THEN [panic |-> "unexpected range key", map |-> m]
             ELSE IF kv.val.tag = "Partial"
             THEN IF kv.val.last_seq # known_version.last_seq
                  THEN [panic |-> "divergent last_seq", map |-> m]
                  ELSE IF kv.val.ts # known_version.ts
                  THEN [panic |-> "divergent timestamp", map |-> m]
                  ELSE [panic |-> "",
                        map |-> RangeMapInsert(m, version,
                                  Partial(known_version.seqs \cup kv.val.seqs,
                                          known_version.last_seq, known_version.ts))]
             ELSE [panic |-> "unexpected non-partial booked value", map |-> m]
    ELSE [panic |-> "", map |-> RangeMapInsert(m, version, known_version)]

\* Booked::insert (agent.rs 156-158): the map's own insert, under the lock.
BookedInsertMap(m, version, db_version) == RangeMapInsert(m, version, db_version)

\* HashMap::insert(actor_id, Booked::default()) in the place of
\* entry(actor_id).or_default(): always a new ledger.
OrDefaultId_AlwaysNew(reg, n, actor_id) == n + 1

\* HashMap::entry(actor_id).or_default(): the actor's ledger, allocated when
\* the actor has none.
OrDefaultId(reg, n, actor_id) == IF reg[actor_id] # None THEN reg[actor_id] ELSE n + 1

OrDefaultReg(reg, n, actor_id) ==
    [reg EXCEPT ![actor_id] = OrDefaultId(reg, n, actor_id)]

OrDefaultCount(reg, n, actor_id) == IF OrDefaultId(reg, n, actor_id) > n THEN n + 1 ELSE n

\* A lookup that answers for an unknown actor as if every version were known.
BookieContainsResult_UnknownIsTrue(reg, leds, a, v) ==
    IF reg[a] = None THEN TRUE ELSE contains_key(leds[reg[a]], v)

\* Bookie::contains (agent.rs 244-250)
BookieContainsResult(reg, leds, a, v) ==
    IF reg[a] = None THEN FALSE ELSE contains_key(leds[reg[a]], v)

\* Bookie::last (agent.rs 252-257)
BookieLastResult(reg, leds, a) ==
    IF reg[a] = None THEN None ELSE last_end(leds[reg[a]])

\* History of a completed insert of state s at version v into ledger l.
NoteInsert(l, v, s) ==
    /\ incCurrent' = [incCurrent EXCEPT ![l] =
                        /\ incCurrent[l]
                        /\ s.tag = "Current"
                        /\ \A u \in inserted[l] : u < v]
    /\ inserted' = [inserted EXCEPT ![l] = @ \cup {v}]

EmptyBookie ==
    /\ registry = [a \in Actors |-> None]
    /\ ledgers = [l \in LedgerIds |-> EmptyMap]
    /\ nLedgers = 0
    /\ regLock = Unlocked
    /\ ledLock = [l \in LedgerIds |-> Unlocked]
    /\ pc = [t \in Tasks |-> "idle"]
    /\ arg = [t \in Tasks |-> NoArg]
    /\ handle = [t \in Tasks |-> None]
    /\ handleFor = [t \in Tasks |-> ""]
    /\ res = [t \in Tasks |-> Ok]
    /\ calls = 0
    /\ inserted = [l \in LedgerIds |-> {}]
    /\ incCurrent = [l \in LedgerIds |-> TRUE]

SetArg(t, a, v, s) == arg' = [arg EXCEPT ![t] = [actor |-> a, version |-> v, state |-> s]]

Return(t, r) ==
    /\ pc' = [pc EXCEPT ![t] = "idle"]
    /\ arg' = [arg EXCEPT ![t] = NoArg]
    /\ res' = [res EXCEPT ![t] = r]

\* The calls the tasks may begin are counted, and capped at MaxCalls, where
\* several tasks run (limited); the single thread calls without end.
CountCall(t, limited) ==
    IF limited
    THEN calls < MaxCalls /\ calls' = calls + 1 /\ UNCHANGED <<codecVars, dispatchVars>>
    ELSE UNCHANGED <<calls, codecVars, dispatchVars>>

(***************************************************************************)
(* Bookie::for_actor (agent.rs 239-242)                                    *)
(***************************************************************************)
ForActorCall(t, a, limited) ==
    /\ CountCall(t, limited)
    /\ pc[t] = "idle"
    /\ pc' = [pc EXCEPT ![t] = "for_actor"]
    /\ SetArg(t, a, 0, NoValue)
    /\ res' = [res EXCEPT ![t] = Ok]
    /\ UNCHANGED <<registry, ledgers, nLedgers, regLock, ledLock, handle, handleFor,
                   inserted, incCurrent>>

\* self.0.write(), entry(actor_id).or_default().clone(), and the guard dropped
ForActorRun(t) ==
    /\ UNCHANGED <<calls, codecVars, dispatchVars>>
    /\ pc[t] = "for_actor"
    /\ CanWrite(regLock, t)
    /\ regLock' = Unlocked
    /\ registry' = OrDefaultReg(registry, nLedgers, arg[t].actor)
    /\ nLedgers' = OrDefaultCount(registry, nLedgers, arg[t].actor)
    /\ handle' = [handle EXCEPT ![t] = OrDefaultId(registry, nLedgers, arg[t].actor)]
    /\ handleFor' = [handleFor EXCEPT ![t] = arg[t].actor]
    /\ Return(t, Ok)
    /\ UNCHANGED <<ledgers, ledLock, inserted, incCurrent>>

(***************************************************************************)
(* Bookie::add (agent.rs 226-237)                                          *)
(***************************************************************************)
\* self.0.read().get(&actor_id): on a hit the read guard stays held for the
\* insert (228-231); on a miss it is dropped at the end of the block (232).
AddLookup(t, a, v, s, limited) ==
    /\ CountCall(t, limited)
    /\ pc[t] = "idle"
    /\ CanRead(regLock)
    /\ SetArg(t, a, v, s)
    /\ IF registry[a] # None
       THEN /\ regLock' = ReadLocked(regLock, t)
            /\ pc' = [pc EXCEPT ![t] = "add_fast"]
       ELSE /\ UNCHANGED regLock
            /\ pc' = [pc EXCEPT ![t] = "add_slow"]
    /\ res' = [res EXCEPT ![t] = Ok]
    /\ UNCHANGED <<registry, ledgers, nLedgers, ledLock, handle, handleFor,
                   inserted, incCurrent>>

\* booked.insert(version, db_version); return (229-230), the registry's read
\* guard dropped on the way out
AddFastInsert(t) ==
    /\ UNCHANGED <<calls, codecVars, dispatchVars>>
    /\ pc[t] = "add_fast"
    /\ LET l == registry[arg[t].actor]
       IN  /\ CanWrite(ledLock[l], t)
           /\ ledgers' = [ledgers EXCEPT ![l] =
                            BookedInsertMap(@, arg[t].version, arg[t].state)]
           /\ ledLock' = [ledLock EXCEPT ![l] = Unlocked]
           /\ NoteInsert(l, arg[t].version, arg[t].state)
    /\ regLock' = ReadUnlocked(regLock, t)
    /\ Return(t, Ok)
    /\ UNCHANGED <<registry, nLedgers, handle, handleFor>>

\* let mut w = self.0.write(); let booked = w.entry(actor_id).or_default() (234-235)
AddSlowEntry(t) ==
    /\ UNCHANGED <<calls, codecVars, dispatchVars>>
    /\ pc[t] = "add_slow"
    /\ CanWrite(regLock, t)
    /\ regLock' = WriteLocked(t)
    /\ registry' = OrDefaultReg(registry, nLedgers, arg[t].actor)
    /\ nLedgers' = OrDefaultCount(registry, nLedgers, arg[t].actor)
    /\ pc' = [pc EXCEPT ![t] = "add_slow_insert"]
    /\ UNCHANGED <<ledgers, ledLock, arg, handle, handleFor, res, inserted, incCurrent>>

\* booked.insert(version, db_version) (236), then w dropped
AddSlowInsert(t) ==
    /\ UNCHANGED <<calls, codecVars, dispatchVars>>
    /\ pc[t] = "add_slow_insert"
    /\ LET l == registry[arg[t].actor]
       IN  /\ CanWrite(ledLock[l], t)
           /\ ledgers' = [ledgers EXCEPT ![l] =
                            BookedInsertMap(@, arg[t].version, arg[t].state)]
           /\ ledLock' = [ledLock EXCEPT ![l] = Unlocked]
           /\ NoteInsert(l, arg[t].version, arg[t].state)
    /\ regLock' = Unlocked
    /\ Return(t, Ok)
    /\ UNCHANGED <<registry, nLedgers, handle, handleFor>>

(***************************************************************************)
(* Bookie::contains (agent.rs 244-250), Bookie::last (agent.rs 252-257)    *)
(***************************************************************************)
\* self.0.read().get(&actor_id): unknown actor, false at once
BookieContainsLookup(t, a, v, limited) ==
    /\ CountCall(t, limited)
    /\ pc[t] = "idle"
    /\ CanRead(regLock)
    /\ IF registry[a] = None
       THEN /\ res' = [res EXCEPT ![t] = Bool(BookieContainsResult(registry, ledgers, a, v), v)]
            /\ UNCHANGED <<regLock, pc, arg>>
       ELSE /\ regLock' = ReadLocked(regLock, t)
            /\ pc' = [pc EXCEPT ![t] = "bookie_contains"]
            /\ SetArg(t, a, v, NoValue)
            /\ res' = [res EXCEPT ![t] = Ok]
    /\ UNCHANGED <<registry, ledgers, nLedgers, ledLock, handle, handleFor,
                   inserted, incCurrent>>

\* booked.contains(version) under the registry's read guard
BookieContainsRead(t) ==
    /\ UNCHANGED <<calls, codecVars, dispatchVars>>
    /\ pc[t] = "bookie_contains"
    /\ CanRead(ledLock[registry[arg[t].actor]])
    /\ regLock' = ReadUnlocked(regLock, t)
    /\ Return(t, Bool(BookieContainsResult(registry, ledgers, arg[t].actor,
                                           arg[t].version), arg[t].version))
    /\ UNCHANGED <<registry, ledgers, nLedgers, ledLock, handle, handleFor,
                   inserted, incCurrent>>

BookieLastLookup(t, a, limited) ==
    /\ CountCall(t, limited)
    /\ pc[t] = "idle"
    /\ CanRead(regLock)
    /\ IF registry[a] = None
       THEN /\ res' = [res EXCEPT ![t] = Opt(BookieLastResult(registry, ledgers, a))]
            /\ UNCHANGED <<regLock, pc, arg>>
       ELSE /\ regLock' = ReadLocked(regLock, t)
            /\ pc' = [pc EXCEPT ![t] = "bookie_last"]
            /\ SetArg(t, a, 0, NoValue)
            /\ res' = [res EXCEPT ![t] = Ok]
    /\ UNCHANGED <<registry, ledgers, nLedgers, ledLock, handle, handleFor,
                   inserted, incCurrent>>

BookieLastRead(t) ==
    /\ UNCHANGED <<calls, codecVars, dispatchVars>>
    /\ pc[t] = "bookie_last"
    /\ CanRead(ledLock[registry[arg[t].actor]])
    /\ regLock' = ReadUnlocked(regLock, t)
    /\ Return(t, Opt(BookieLastResult(registry, ledgers, arg[t].actor)))
    /\ UNCHANGED <<registry, ledgers, nLedgers, ledLock, handle, handleFor,
                   inserted, incCurrent>>

(***************************************************************************)
(* Booked (agent.rs 151-175), through the Booked a task got from for_actor *)
(***************************************************************************)
\* Booked::insert (156-158)
BookedInsertCall(t, v, s, limited) ==
    /\ CountCall(t, limited)
    /\ pc[t] = "idle" /\ handle[t] # None
    /\ pc' = [pc EXCEPT ![t] = "insert"]
    /\ SetArg(t, "", v, s)
    /\ res' = [res EXCEPT ![t] = Ok]
    /\ UNCHANGED <<registry, ledgers, nLedgers, regLock, ledLock, handle, handleFor,
                   inserted, incCurrent>>

\* self.0.write().insert(version..=version, db_version)
BookedInsertRun(t) ==
    /\ UNCHANGED <<calls, codecVars, dispatchVars>>
    /\ pc[t] = "insert"
    /\ CanWrite(ledLock[handle[t]], t)
    /\ ledgers' = [ledgers EXCEPT ![handle[t]] =
                     BookedInsertMap(@, arg[t].version, arg[t].state)]
    /\ ledLock' = [ledLock EXCEPT ![handle[t]] = Unlocked]
    /\ NoteInsert(handle[t], arg[t].version, arg[t].state)
    /\ Return(t, Ok)
    /\ UNCHANGED <<registry, nLedgers, regLock, handle, handleFor>>

\* Booked::contains (160-162)
BookedContains(t, v, limited) ==
    /\ CountCall(t, limited)
    /\ pc[t] = "idle" /\ handle[t] # None
    /\ CanRead(ledLock[handle[t]])
    /\ res' = [res EXCEPT ![t] = Bool(contains_key(ledgers[handle[t]], v), v)]
    /\ UNCHANGED <<registry, ledgers, nLedgers, regLock, ledLock, pc, arg, handle,
                   handleFor, inserted, incCurrent>>

\* Booked::last (164-166)
BookedLast(t, limited) ==
    /\ CountCall(t, limited)
    /\ pc[t] = "idle" /\ handle[t] # None
    /\ CanRead(ledLock[handle[t]])
    /\ res' = [res EXCEPT ![t] = Opt(last_end(ledgers[handle[t]]))]
    /\ UNCHANGED <<registry, ledgers, nLedgers, regLock, ledLock, pc, arg, handle,
                   handleFor, inserted, incCurrent>>

\* Booked::read (168-170): the task now holds a read guard.
ReadGuard(t, limited) ==
    /\ CountCall(t, limited)
    /\ pc[t] = "idle" /\ handle[t] # None
    /\ CanRead(ledLock[handle[t]])
    /\ ledLock' = [ledLock EXCEPT ![handle[t]] = ReadLocked(@, t)]
    /\ pc' = [pc EXCEPT ![t] = "reader"]
    /\ res' = [res EXCEPT ![t] = Ok]
    /\ UNCHANGED <<registry, ledgers, nLedgers, regLock, arg, handle, handleFor,
                   inserted, incCurrent>>

\* The RwLockReadGuard goes out of scope.
ReadGuardDrop(t) ==
    /\ UNCHANGED <<calls, codecVars, dispatchVars>>
    /\ pc[t] = "reader"
    /\ ledLock' = [ledLock EXCEPT ![handle[t]] = ReadUnlocked(@, t)]
    /\ pc' = [pc EXCEPT ![t] = "idle"]
    /\ UNCHANGED <<registry, ledgers, nLedgers, regLock, arg, handle, handleFor, res,
                   inserted, incCurrent>>

\* Booked::write (172-174)
WriteCall(t, limited) ==
    /\ CountCall(t, limited)
    /\ pc[t] = "idle" /\ handle[t] # None
    /\ pc' = [pc EXCEPT ![t] = "write"]
    /\ res' = [res EXCEPT ![t] = Ok]
    /\ UNCHANGED <<registry, ledgers, nLedgers, regLock, ledLock, arg, handle,
                   handleFor, inserted, incCurrent>>

\* BookWriter(self.0.write()): the task now holds a BookWriter.
WriteRun(t) ==
    /\ UNCHANGED <<calls, codecVars, dispatchVars>>
    /\ pc[t] = "write"
    /\ CanWrite(ledLock[handle[t]], t)
    /\ ledLock' = [ledLock EXCEPT ![handle[t]] = WriteLocked(t)]
    /\ pc' = [pc EXCEPT ![t] = "writer"]
    /\ res' = [res EXCEPT ![t] = Ok]
    /\ UNCHANGED <<registry, ledgers, nLedgers, regLock, arg, handle, handleFor,
                   inserted, incCurrent>>

(***************************************************************************)
(* BookWriter (agent.rs 177-214)                                           *)
(***************************************************************************)
\* What a panic inside BookWriter::insert leaves of the lock: unwinding drops
\* the BookWriter and with it the RwLockWriteGuard (agent.rs 177;
\* parking_lot locks are not poisoned).
LockAfterPanic(lock) == Unlocked

\* BookWriter::insert (180-205).  A panic unwinds out of the call and the
\* task goes on with its next call.
WriterInsert(t, v, s) ==
    /\ UNCHANGED <<calls, codecVars, dispatchVars>>
    /\ pc[t] = "writer"
    /\ LET l == handle[t]
           out == BookWriterInsertOutcome(ledgers[l], v, s)
       IN  IF out.panic # ""
           THEN /\ res' = [res EXCEPT ![t] = Panic(out.panic)]
                /\ ledgers' = [ledgers EXCEPT ![l] = out.map]
                /\ ledLock' = [ledLock EXCEPT ![l] = LockAfterPanic(@)]
                /\ pc' = [pc EXCEPT ![t] = "idle"]
                /\ UNCHANGED <<inserted, incCurrent>>
           ELSE /\ res' = [res EXCEPT ![t] = Ok]
                /\ ledgers' = [ledgers EXCEPT ![l] = out.map]
                /\ NoteInsert(l, v, s)
                /\ UNCHANGED <<ledLock, pc>>
    /\ UNCHANGED <<registry, nLedgers, regLock, arg, handle, handleFor>>

\* BookWriter::contains (207-209)
WriterContains(t, v) ==
    /\ UNCHANGED <<calls, codecVars, dispatchVars>>
    /\ pc[t] = "writer"
    /\ res' = [res EXCEPT ![t] = Bool(contains_key(ledgers[handle[t]], v), v)]
    /\ UNCHANGED <<registry, ledgers, nLedgers, regLock, ledLock, pc, arg, handle,
                   handleFor, inserted, incCurrent>>

\* BookWriter::last (211-213)
WriterLast(t) ==
    /\ UNCHANGED <<calls, codecVars, dispatchVars>>
    /\ pc[t] = "writer"
    /\ res' = [res EXCEPT ![t] = Opt(last_end(ledgers[handle[t]]))]
    /\ UNCHANGED <<registry, ledgers, nLedgers, regLock, ledLock, pc, arg, handle,
                   handleFor, inserted, incCurrent>>

\* The BookWriter goes out of scope: its RwLockWriteGuard is released.
WriterDrop(t) ==
    /\ UNCHANGED <<calls, codecVars, dispatchVars>>
    /\ pc[t] = "writer"
    /\ ledLock' = [ledLock EXCEPT ![handle[t]] = Unlocked]
    /\ pc' = [pc EXCEPT ![t] = "idle"]
    /\ UNCHANGED <<registry, ledgers, nLedgers, regLock, arg, handle, handleFor, res,
                   inserted, incCurrent>>

(***************************************************************************)
(* A write() that finds readers holding the lock announces itself: from    *)
(* then on no new reader is let in (parking_lot's writer preference).       *)
(***************************************************************************)
PendWrite(t) ==
    \/ /\ pc[t] \in {"for_actor", "add_slow"}
       /\ CanPend(regLock)
       /\ regLock' = [regLock EXCEPT !.pw = t]
       /\ UNCHANGED <<registry, ledgers, nLedgers, ledLock, pc, arg, handle, handleFor,
                      res, calls, inserted, incCurrent, codecVars, dispatchVars>>
    \/ /\ pc[t] \in {"add_fast", "add_slow_insert", "insert", "write"}
       /\ LET l == IF pc[t] \in {"insert", "write"}
                   THEN handle[t] ELSE registry[arg[t].actor]
          IN  /\ CanPend(ledLock[l])
              /\ ledLock' = [ledLock EXCEPT ![l].pw = t]
       /\ UNCHANGED <<registry, ledgers, nLedgers, regLock, pc, arg, handle, handleFor,
                      res, calls, inserted, incCurrent, codecVars, dispatchVars>>

(***************************************************************************)
(* DispatchRuntime (broadcast.rs 123-178): the membership engine calls      *)
(* notify, send_to and submit_after; each hands one item to a bounded       *)
(* channel with try_send.  The tasks owning the receivers take the items.   *)
(***************************************************************************)
Capacity == 1
MaxDispatch == 4

Channels == {"notifications", "to_send", "to_schedule"}

\* foca::Notification: the three kinds notify looks at, and one other
Notifications == {"Active", "Idle", "Defunct", "MemberUp"}

\* destinations and payloads of send_to
Destinations == {"p", "q"}
Packets == { <<7, 8>> }

\* timers and delays of submit_after
Timers == {"ProbeRandomMember", "PeriodicGossip"}
Delays == {10}

\* DispatchRuntime::new
IdleDispatch ==
    /\ active = FALSE
    /\ chan = [c \in Channels |-> <<>>]
    /\ errs = [c \in Channels |-> 0]
    /\ passed = [c \in Channels |-> <<>>]
    /\ taken = [c \in Channels |-> <<>>]
    /\ dcalls = 0

\* the flag follows Active only
NotifyActive_ActiveOnly(flag, notification) ==
    IF notification = "Active" THEN TRUE ELSE flag

\* the match of notify (132-140)
NotifyActive(flag, notification) ==
    CASE notification = "Active" -> TRUE
      [] notification \in {"Idle", "Defunct"} -> FALSE
      [] OTHER -> flag

\* a send that makes room by discarding the oldest queued item
try_send_DropOldest(queue, item) ==
    IF Len(queue) < Capacity
    THEN [err |-> FALSE, queue |-> Append(queue, item)]
    ELSE [err |-> TRUE, queue |-> Append(Tail(queue), item)]

\* Sender::try_send: [err, queue]
try_send(queue, item) ==
    IF Len(queue) < Capacity
    THEN [err |-> FALSE, queue |-> Append(queue, item)]
    ELSE [err |-> TRUE, queue |-> queue]

\* a copy that loses the last byte
to_vec_Truncated(data) == SubSeq(data, 1, Len(data) - 1)

\* data.to_vec() and packet.into(): a copy of the bytes
to_vec(data) == [i \in 1..Len(data) |-> data[i]]

\* the "if let Err(e) = ....try_send(item)" of each method: one attempt,
\* the counter incremented when it fails, nothing returned
Dispatch(c, given, item) ==
    /\ dcalls < MaxDispatch
    /\ dcalls' = dcalls + 1
    /\ LET r == try_send(chan[c], item)
       IN  /\ chan' = [chan EXCEPT ![c] = r.queue]
           /\ errs' = [errs EXCEPT ![c] = IF r.err THEN @ + 1 ELSE @]
    /\ passed' = [passed EXCEPT ![c] =
                    Append(@, [item |-> given, full |-> Len(chan[c]) >= Capacity])]
    /\ UNCHANGED <<taken, ledgerVars, codecVars>>

Notify(notification) ==
    /\ active' = NotifyActive(active, notification)
    /\ Dispatch("notifications", notification, notification)

SendTo(to, data) ==
    /\ Dispatch("to_send", <<to, data>>, <<to, to_vec(data)>>)
    /\ UNCHANGED active

SubmitAfter(event, after) ==
    /\ Dispatch("to_schedule", <<after, event>>, <<after, event>>)
    /\ UNCHANGED active

\* Receiver::recv by the task that owns the receiver
Recv(c) ==
    /\ chan[c] # <<>>
    /\ taken' = [taken EXCEPT ![c] = Append(@, Head(chan[c]))]
    /\ chan' = [chan EXCEPT ![c] = Tail(@)]
    /\ UNCHANGED <<active, errs, passed, dcalls, ledgerVars, codecVars>>

NextDispatch ==
    \/ \E notification \in Notifications : Notify(notification)
    \/ \E to \in Destinations, data \in Packets : SendTo(to, data)
    \/ \E event \in Timers, after \in Delays : SubmitAfter(event, after)
    \/ \E c \in Channels : Recv(c)

(***************************************************************************)
(* The wire: a sender encodes messages into buf, the transport carries the  *)
(* bytes into the receiver's rx, and the receiver's loop calls              *)
(* Message::decode on rx.  The transport may invert one bit, and a peer may *)
(* put any frame on the wire.                                               *)
(***************************************************************************)
MaxFrames == 2
MaxDecodes == 3

\* frame contents a peer may send that no Message::encode produced
RawContents == { <<>>, <<170>>, <<170, 187>>, <<1, 2, 3>>, <<0, 0, 0, 0>>, <<1, 2, 3, 4, 5>> }

EmptyWire ==
    /\ buf = <<>>
    /\ rx = <<>>
    /\ codec = CodecHead
    /\ outs = <<>>
    /\ frames = 0
    /\ flipped = FALSE

\* nothing registered, nothing on the wire
InitEmpty == EmptyBookie /\ EmptyWire /\ IdleDispatch

Last(seq) == seq[Len(seq)]

\* the receiving loop is alive: no decode call has panicked
Receiving == IF outs = <<>> THEN TRUE ELSE Last(outs).kind # "panic"

FlipAt(bytes, i, k) == [bytes EXCEPT ![i] = XorByte(bytes[i], 2 ^ k)]

EncodeCall(m) ==
    /\ frames < MaxFrames
    /\ buf' = encode(m, buf).buf
    /\ frames' = frames + 1
    /\ UNCHANGED <<rx, codec, outs, flipped, ledgerVars, dispatchVars>>

Send ==
    /\ buf # <<>>
    /\ rx' = rx \o buf
    /\ buf' = <<>>
    /\ UNCHANGED <<codec, outs, frames, flipped, ledgerVars, dispatchVars>>

\* the transport inverts one bit of a run's only transmission
SendFlipped(i, k) ==
    /\ buf # <<>>
    /\ ~flipped
    /\ frames = 1 /\ rx = <<>> /\ outs = <<>>
    /\ i \in 1..Len(buf)
    /\ rx' = rx \o FlipAt(buf, i, k)
    /\ buf' = <<>>
    /\ flipped' = TRUE
    /\ frames' = MaxFrames
    /\ UNCHANGED <<codec, outs, ledgerVars, dispatchVars>>

ReceiveRaw(content) ==
    /\ frames < MaxFrames
    /\ rx' = rx \o codec_encode(content, <<>>).dst
    /\ frames' = frames + 1
    /\ UNCHANGED <<buf, codec, outs, flipped, ledgerVars, dispatchVars>>

DecodeCall ==
    /\ Len(outs) < MaxDecodes
    /\ Receiving
    /\ LET d == decode(codec, rx)
       IN  /\ outs' = Append(outs, d.out)
           /\ codec' = d.codec
           /\ rx' = d.buf
    /\ UNCHANGED <<buf, frames, flipped, ledgerVars, dispatchVars>>

MaxFrameBytes == 8 + (8 + ActorIdLen + 8 + 4 + 2 * ChangeLen)

NextCodec ==
    \/ \E m \in Messages : EncodeCall(m)
    \/ Send
    \/ \E i \in 1..MaxFrameBytes, k \in 0..7 : SendFlipped(i, k)
    \/ \E content \in RawContents : ReceiveRaw(content)
    \/ DecodeCall

SpecCodec == InitEmpty /\ [][NextCodec]_vars

SpecDispatch == InitEmpty /\ [][NextDispatch]_vars

(***************************************************************************)
(* SpecLedger: one thread, one actor, every version state.                 *)
(***************************************************************************)
KnownDbVersions == PartialInputs \cup CurrentInputs \cup {Cleared}

NextLedger ==
    \/ ForActorCall(MainTask, MainActor, FALSE)
    \/ ForActorRun(MainTask)
    \/ \E v \in Versions, s \in KnownDbVersions : AddLookup(MainTask, MainActor, v, s, FALSE)
    \/ AddFastInsert(MainTask)
    \/ AddSlowEntry(MainTask)
    \/ AddSlowInsert(MainTask)
    \/ \E v \in Versions : BookieContainsLookup(MainTask, MainActor, v, FALSE)
    \/ BookieContainsRead(MainTask)
    \/ BookieLastLookup(MainTask, MainActor, FALSE)
    \/ BookieLastRead(MainTask)
    \/ \E v \in Versions, s \in KnownDbVersions : BookedInsertCall(MainTask, v, s, FALSE)
    \/ BookedInsertRun(MainTask)
    \/ \E v \in Versions : BookedContains(MainTask, v, FALSE)
    \/ BookedLast(MainTask, FALSE)
    \/ ReadGuard(MainTask, FALSE)
    \/ ReadGuardDrop(MainTask)
    \/ WriteCall(MainTask, FALSE)
    \/ WriteRun(MainTask)
    \/ \E v \in Versions, s \in KnownDbVersions : WriterInsert(MainTask, v, s)
    \/ \E v \in Versions : WriterContains(MainTask, v)
    \/ WriterLast(MainTask)
    \/ WriterDrop(MainTask)

SpecLedger == InitEmpty /\ [][NextLedger]_vars

(***************************************************************************)
(* Spec: the tasks call the registry and the ledgers concurrently.  They     *)
(* begin at most MaxCalls calls in all, on these versions and states.       *)
(***************************************************************************)
ConcVersions == {1}

ConcStates == { Partial({0}, 1, 1), Partial({1}, 1, 1) }

\* Bookie::new (agent.rs 222-224) over a map that holds actor A's ledger,
\* still empty; actor B is unknown.
BookieWithA ==
    /\ registry = [a \in Actors |-> IF a = MainActor THEN 1 ELSE None]
    /\ ledgers = [l \in LedgerIds |-> EmptyMap]
    /\ nLedgers = 1
    /\ regLock = Unlocked
    /\ ledLock = [l \in LedgerIds |-> Unlocked]
    /\ pc = [t \in Tasks |-> "idle"]
    /\ arg = [t \in Tasks |-> NoArg]
    /\ handle = [t \in Tasks |-> None]
    /\ handleFor = [t \in Tasks |-> ""]
    /\ res = [t \in Tasks |-> Ok]
    /\ calls = 0
    /\ inserted = [l \in LedgerIds |-> {}]
    /\ incCurrent = [l \in LedgerIds |-> TRUE]

Init == BookieWithA /\ EmptyWire /\ IdleDispatch

Next ==
    \E t \in Tasks :
        \/ \E a \in Actors : ForActorCall(t, a, TRUE)
        \/ ForActorRun(t)
        \/ \E a \in Actors, v \in ConcVersions, s \in ConcStates : AddLookup(t, a, v, s, TRUE)
        \/ AddFastInsert(t)
        \/ AddSlowEntry(t)
        \/ AddSlowInsert(t)
        \/ \E a \in Actors, v \in ConcVersions : BookieContainsLookup(t, a, v, TRUE)
        \/ BookieContainsRead(t)
        \/ \E a \in Actors : BookieLastLookup(t, a, TRUE)
        \/ BookieLastRead(t)
        \/ \E v \in ConcVersions, s \in ConcStates : BookedInsertCall(t, v, s, TRUE)
        \/ BookedInsertRun(t)
        \/ \E v \in ConcVersions : BookedContains(t, v, TRUE)
        \/ BookedLast(t, TRUE)
        \/ ReadGuard(t, TRUE)
        \/ ReadGuardDrop(t)
        \/ WriteCall(t, TRUE)
        \/ WriteRun(t)
        \/ \E v \in ConcVersions, s \in ConcStates : WriterInsert(t, v, s)
        \/ \E v \in ConcVersions : WriterContains(t, v)
        \/ WriterLast(t)
        \/ WriterDrop(t)
        \/ PendWrite(t)

Spec == Init /\ [][Next]_vars

(***************************************************************************)
(* The registry / ledger API without handles kept by the callers: every    *)
(* operation takes and releases its locks itself.  The tasks are scheduled *)
(* fairly: a task whose call can take its next step does not wait forever. *)
(***************************************************************************)
\* self.0.write() of for_actor (240) or add (234) queued behind readers
PendRegistryWrite(t) ==
    /\ pc[t] \in {"for_actor", "add_slow"}
    /\ CanPend(regLock)
    /\ regLock' = [regLock EXCEPT !.pw = t]
    /\ UNCHANGED <<registry, ledgers, nLedgers, ledLock, pc, arg, handle, handleFor,
                   res, calls, inserted, incCurrent, codecVars, dispatchVars>>

\* the steps by which a call that has begun goes on to its return
TaskRuns(t) ==
    \/ ForActorRun(t)
    \/ AddFastInsert(t)
    \/ AddSlowEntry(t)
    \/ AddSlowInsert(t)
    \/ BookieContainsRead(t)
    \/ BookieLastRead(t)
    \/ BookedInsertRun(t)

NextApi ==
    \E t \in Tasks :
        \/ \E a \in Actors : ForActorCall(t, a, TRUE)
        \/ ForActorRun(t)
        \/ \E a \in Actors, v \in ConcVersions, s \in ConcStates : AddLookup(t, a, v, s, TRUE)
        \/ AddFastInsert(t)
        \/ AddSlowEntry(t)
        \/ AddSlowInsert(t)
        \/ \E a \in Actors, v \in ConcVersions : BookieContainsLookup(t, a, v, TRUE)
        \/ BookieContainsRead(t)
        \/ \E a \in Actors : BookieLastLookup(t, a, TRUE)
        \/ BookieLastRead(t)
        \/ \E v \in ConcVersions, s \in ConcStates : BookedInsertCall(t, v, s, TRUE)
        \/ BookedInsertRun(t)
        \/ \E v \in ConcVersions : BookedContains(t, v, TRUE)
        \/ BookedLast(t, TRUE)
        \/ PendRegistryWrite(t)

Fairness == \A t \in Tasks : WF_vars(TaskRuns(t))

SpecApi == Init /\ [][NextApi]_vars /\ Fairness

(***************************************************************************)
(* Claims about the ledger and the registry called by one thread           *)
(* (SpecLedger).                                                           *)
(***************************************************************************)
MainLedger == registry[MainActor]

\* The thread holds a BookWriter on a ledger whose entry at v is a Partial
\* with the last_seq and ts of s.
MergeablePartialAt(v, s) ==
    /\ pc[MainTask] = "writer"
    /\ s.tag = "Partial"
    /\ LET old == ValueAt(ledgers[handle[MainTask]], v)
       IN  old.tag = "Partial" /\ old.last_seq = s.last_seq /\ old.ts = s.ts

\* C1: BookWriter::insert of Partial{S2, L, T} at a version holding
\* Partial{S1, L, T} raises no fault and leaves Partial{S1 \cup S2, L, T}
\* there, whatever the neighbouring versions hold; when S2 is a subset of S1
\* the ledger is unchanged.
C1_PartialMergeIsUnion ==
    [][ \A v \in Versions, s \in PartialInputs :
          ( MergeablePartialAt(v, s) /\ WriterInsert(MainTask, v, s) )
          => LET l == handle[MainTask]
                 old == ValueAt(ledgers[l], v)
             IN  /\ res'[MainTask].kind # "panic"
                 /\ ValueAt(ledgers'[l], v)
                      = Partial(old.seqs \cup s.seqs, s.last_seq, s.ts)
                 /\ (s.seqs \subseteq old.seqs => ledgers' = ledgers) ]_vars

\* C2: Booked::insert(v, s) and Bookie::add(actor, v, s) leave the ledger
\* content, or raise the fault, that Booked::write().insert(v, s) produces on
\* the same ledger state.
\* The insert a call's last step does is the one BookWriter::insert does on
\* the ledger l as it is now: the same content, and a panic exactly when
\* BookWriter::insert panics.
LikeWriterInsert(t, l) ==
    LET out == BookWriterInsertOutcome(ledgers[l], arg[t].version, arg[t].state)
    IN  /\ ledgers'[l] = out.map
        /\ (out.panic # "") = (res'[t].kind = "panic")

C2_InsertSameAsWriter ==
    [][ /\ BookedInsertRun(MainTask) => LikeWriterInsert(MainTask, handle[MainTask])
        /\ AddFastInsert(MainTask) => LikeWriterInsert(MainTask, registry[MainActor])
        /\ AddSlowInsert(MainTask) => LikeWriterInsert(MainTask, registry[MainActor])
      ]_vars

\* The thread holds a BookWriter on a ledger whose entry at v is a Partial
\* whose last_seq or ts differs from that of s.
DivergentPartialAt(v, s) ==
    /\ pc[MainTask] = "writer"
    /\ s.tag = "Partial"
    /\ LET old == ValueAt(ledgers[handle[MainTask]], v)
       IN  old.tag = "Partial" /\ (old.last_seq # s.last_seq \/ old.ts # s.ts)

\* C3: BookWriter::insert of a Partial over a Partial with another last_seq
\* or ts is a fault that stores nothing: the ledger content is what it was,
\* and the ledger's lock is released, so that the next contains / last /
\* insert on the ledger can run.
C3_DivergentPartialRejected ==
    [][ \A v \in Versions, s \in PartialInputs :
          ( DivergentPartialAt(v, s) /\ WriterInsert(MainTask, v, s) )
          => /\ res'[MainTask].kind = "panic"
             /\ ledgers' = ledgers
             /\ registry' = registry
             /\ ledLock'[handle[MainTask]] = Unlocked
             /\ pc'[MainTask] = "idle" ]_vars

C3_Witness ==
    /\ res[MainTask].kind = "panic"
    /\ res[MainTask].msg \in {"divergent last_seq", "divergent timestamp"}
    /\ pc[MainTask] = "idle"
    /\ ledLock[handle[MainTask]] = Unlocked
    /\ ledgers[handle[MainTask]] # EmptyMap

\* Partial < Current < Cleared, a version the ledger does not hold below all.
Rank(val) ==
    CASE val.tag = "None" -> 0
      [] val.tag = "Partial" -> 1
      [] val.tag = "Current" -> 2
      [] val.tag = "Cleared" -> 3

\* C4: no insert moves a version backward in Partial < Current < Cleared,
\* and a contained version stays contained.
C4_EntriesOnlyAdvance ==
    [][ \A l \in LedgerIds, v \in Versions :
          Rank(ValueAt(ledgers'[l], v)) >= Rank(ValueAt(ledgers[l], v)) ]_vars

\* C7: after Current inserts at strictly increasing versions on an empty
\* ledger, last() is the largest inserted version (None when there is none)
\* and contains(v) is true exactly for the inserted versions, through the
\* ledger and through the registry.
C7_LastAndContains ==
    LET ins == IF MainLedger = None THEN {} ELSE inserted[MainLedger]
        max == IF ins = {} THEN None ELSE SetMax(ins)
        r == res[MainTask]
    IN  (MainLedger # None => incCurrent[MainLedger])
        => /\ BookieLastResult(registry, ledgers, MainActor) = max
           /\ \A v \in Versions :
                BookieContainsResult(registry, ledgers, MainActor, v) <=> v \in ins
           /\ r.kind = "opt" => r.val = max
           /\ r.kind = "bool" => (r.val = 1 <=> r.q \in ins)

\* Versions MaxVersion-1 and MaxVersion were inserted with equal Current
\* values, stored as one range, and last() was called.
C7_Witness ==
    /\ MainLedger # None
    /\ incCurrent[MainLedger]
    /\ \E e \in ledgers[MainLedger] : e.start < e.end /\ e.end = MaxVersion
    /\ res[MainTask] = Opt(MaxVersion)


(***************************************************************************)
(* Claims about concurrent calls (Spec).                                   *)
(***************************************************************************)
NewActor == CHOOSE a \in Actors : a # MainActor

\* C5: whatever the interleaving of for_actor(a) and add(a, v, s) on an actor
\* unknown at first, every ledger ever allocated is the one the registry
\* holds for an actor (an actor never gets a second ledger), every handle
\* for_actor returned is the registry's ledger of its actor, and every
\* version whose insert completed is in that ledger.
C5_OneSharedLedger ==
    /\ \A l \in 1..nLedgers : \E a \in Actors : registry[a] = l
    /\ \A t \in Tasks : handle[t] # None => registry[handleFor[t]] = handle[t]
    /\ \A l \in LedgerIds : \A v \in inserted[l] : contains_key(ledgers[l], v)
    /\ \A a \in Actors : registry[a] # None =>
         \A v \in inserted[registry[a]] :
            BookieContainsResult(registry, ledgers, a, v)

\* A Bookie::add of the new actor missed its lookup and is on its way to the
\* exclusive lock, while another add has registered the actor and inserted,
\* and a for_actor of the same actor has returned its handle.
C5_Witness ==
    \E t \in Tasks, u \in Tasks :
        /\ pc[t] = "add_slow" /\ arg[t].actor = NewActor
        /\ handleFor[u] = NewActor /\ handle[u] = registry[NewActor]
        /\ inserted[registry[NewActor]] # {}

\* Task u holds the registry's read guard and waits for the ledger lock of
\* its actor, which another task holds.
WaitsForLedger(u) ==
    /\ u \in regLock.r
    /\ pc[u] \in {"add_fast", "bookie_contains", "bookie_last"}
    /\ LET lock == ledLock[registry[arg[u].actor]]
       IN  IF pc[u] = "add_fast" THEN ~CanWrite(lock, u) ELSE ~CanRead(lock)

\* Some task is registering a new actor.
Registering ==
    \E t \in Tasks :
        \/ pc[t] \in {"add_slow", "add_slow_insert"}
        \/ pc[t] = "for_actor" /\ registry[arg[t].actor] = None

\* C6: while no actor is being registered, a registry call for a registered
\* actor never waits for the registry lock behind a task that itself waits
\* for the ledger lock of another actor.
C6_NoWaitAcrossActors ==
    \A t \in Tasks :
        ( /\ pc[t] = "for_actor"
          /\ registry[arg[t].actor] # None
          /\ ~CanWrite(regLock, t)
          /\ ~Registering )
        => ~ \E u \in Tasks \ {t} :
                /\ arg[u].actor # arg[t].actor
                /\ WaitsForLedger(u)

(***************************************************************************)
(* Claims about the wire codec (SpecCodec).                                *)
(***************************************************************************)
IsPrefix(p, b) == Len(p) <= Len(b) /\ Take(b, Len(p)) = p

WholeFrameAhead ==
    /\ codec = CodecHead
    /\ Len(rx) >= 4
    /\ ~TooBig(get_u32(Take(rx, 4)))
    /\ LET n == get_u32(Take(rx, 4)).hi * 65536 + get_u32(Take(rx, 4)).lo
       IN  n >= 4 /\ Len(rx) >= 4 + n

FrameAhead ==
    LET n == get_u32(Take(rx, 4)).hi * 65536 + get_u32(Take(rx, 4)).lo
    IN  Take(Drop(rx, 4), n)

\* C9: a frame whose trailing CRC differs from the CRC-32 of the rest makes
\* Message::decode return Corrupted with the received and the recomputed CRC
\* and no message, and the frame leaves the buffer; a well-formed frame that
\* follows it is returned by the next decode call.
C9_CorruptedFrameSkipped ==
    [][ DecodeCall =>
          /\ WholeFrameAhead =>
               LET c == FrameAhead
                   crc == get_u32(Drop(c, Len(c) - 4))
                   new_crc == crc32(Take(c, Len(c) - 4))
               IN  crc # new_crc =>
                     /\ Last(outs') = Outcome("Corrupted", NoMessage, crc, new_crc)
                     /\ rx' = Drop(rx, 4 + Len(c))
                     /\ codec' = CodecHead
          /\ \A m \in Messages :
               ( /\ IF outs = <<>> THEN FALSE ELSE Last(outs).kind = "Corrupted"
                 /\ IsPrefix(encode(m, <<>>).buf, rx) )
               => /\ Last(outs') = Outcome("Some", m, U32(0), U32(0))
                  /\ rx' = Drop(rx, Len(encode(m, <<>>).buf)) ]_vars

C9_Witness ==
    /\ Len(outs) >= 2
    /\ outs[1].kind = "Corrupted"
    /\ outs[1].crc # outs[1].new_crc
    /\ outs[2].kind = "Some"
    /\ outs[2].msg \in Messages

\* C10: Message::from_buf and Message::decode return a message or a typed
\* error for every frame content, frames shorter than the CRC trailer
\* included; no call panics.
C10_DecodeNeverPanics ==
    \A i \in 1..Len(outs) : outs[i].kind \in {"Some", "None", "Corrupted", "Decode", "Io"}

\* C11: a frame produced by Message::encode, with one bit inverted anywhere
\* after the 4-byte length prefix, decodes to a Corrupted or a Decode error
\* and never to a message.
C11_BitFlipDetected ==
    [][ ( DecodeCall /\ flipped /\ outs = <<>> /\ codec = CodecHead ) =>
          \A m \in Messages :
              LET frame == encode(m, <<>>).buf
              IN  Len(rx) = Len(frame) =>
                    \A i \in 5..Len(frame), k \in 0..7 :
                        rx = FlipAt(frame, i, k)
                        => Last(outs').kind \in {"Corrupted", "Decode"} ]_vars

C11_Witness ==
    /\ flipped
    /\ Len(outs) = 1
    /\ outs[1].kind = "Corrupted"
    /\ outs[1].crc # outs[1].new_crc
    /\ rx = <<>>

(***************************************************************************)
(* Claims about DispatchRuntime (SpecDispatch).                            *)
(***************************************************************************)
\* the positions of the Active, Idle and Defunct notifications passed so far
Lifecycle ==
    { i \in 1..Len(passed["notifications"]) :
        passed["notifications"][i].item \in {"Active", "Idle", "Defunct"} }

\* C12: active is true exactly when the latest of the Active, Idle and
\* Defunct notifications passed to notify was Active, enqueued or not; it is
\* false before the first Active, and no other notification changes it.
C12_ActiveFollowsLifecycle ==
    active = ( /\ Lifecycle # {}
               /\ passed["notifications"][SetMax(Lifecycle)].item = "Active" )

C12_Witness ==
    LET log == passed["notifications"]
    IN  /\ Len(log) >= 3
        /\ log[Len(log)].item = "MemberUp"
        /\ log[Len(log) - 1].item = "Active"
        /\ log[Len(log) - 1].full
        /\ log[Len(log) - 2].item = "Defunct"
        /\ active

\* the engine's call of this step handed an item to channel c
Called(c) == Len(passed'[c]) = Len(passed[c]) + 1

\* C13: notify, send_to and submit_after can always be called and return
\* after one enqueue attempt.  On a full channel the item is dropped, the
\* queued items stay as they are, the channel's error counter goes up by
\* one and the caller sees nothing; otherwise the item is queued behind the
\* others.  A queue never holds more than the capacity.
C13_DropOnFullNeverBlocks ==
    /\ [](dcalls < MaxDispatch =>
            /\ \A notification \in Notifications : ENABLED Notify(notification)
            /\ \A to \in Destinations, data \in Packets : ENABLED SendTo(to, data)
            /\ \A event \in Timers, after \in Delays : ENABLED SubmitAfter(event, after))
    /\ [][ \A c \in Channels :
             /\ Len(chan'[c]) <= Capacity
             /\ Called(c) =>
                  /\ dcalls' = dcalls + 1
                  /\ IF Len(chan[c]) >= Capacity
                     THEN chan'[c] = chan[c] /\ errs'[c] = errs[c] + 1
                     ELSE /\ chan'[c] = Append(chan[c], Last(passed'[c]).item)
                          /\ errs'[c] = errs[c] ]_vars

C13_Witness ==
    \E c \in Channels :
        /\ errs[c] = 1
        /\ Len(chan[c]) = Capacity
        /\ \E i, j \in 1..Len(passed[c]) :
              i < j /\ passed[c][i].full /\ ~passed[c][j].full

(***************************************************************************)
(* C14: Bookie::contains(actor, v) returns false and Bookie::last(actor)   *)
(* returns None for an actor without a ledger in the registry, and neither *)
(* call creates a ledger or changes the registry, any ledger or any lock:  *)
(* the actor is still absent from the registry afterwards.                 *)
(***************************************************************************)
BookieUntouched ==
    /\ registry' = registry
    /\ ledgers' = ledgers
    /\ nLedgers' = nLedgers
    /\ regLock' = regLock
    /\ ledLock' = ledLock

\* C14: while the actor is unknown, the thread's contains / last of it answer
\* false / None and leave the registry, the ledgers and the locks as they
\* were.
C14_UnknownActorReadsChangeNothing ==
    [][ registry[MainActor] = None =>
          /\ \A v \in Versions :
                (\E lim \in BOOLEAN : BookieContainsLookup(MainTask, MainActor, v, lim))
                => /\ res'[MainTask] = Bool(FALSE, v)
                   /\ pc'[MainTask] = "idle"
                   /\ BookieUntouched
          /\ (\E lim \in BOOLEAN : BookieLastLookup(MainTask, MainActor, lim))
                => /\ res'[MainTask] = Opt(None)
                   /\ pc'[MainTask] = "idle"
                   /\ BookieUntouched ]_vars

C14_Witness ==
    /\ registry[MainActor] = None
    /\ nLedgers = 0
    /\ pc[MainTask] = "idle"
    /\ \E v \in Versions : res[MainTask] = Bool(FALSE, v)

HoldsWriter(t, l) == pc[t] = "writer" /\ handle[t] = l

WriterExcludes ==
    \A t \in Tasks, l \in LedgerIds :
        HoldsWriter(t, l)
        => /\ ledLock[l].w = t
           /\ ledLock[l].r = {}
           /\ \A u \in Tasks \ {t} :
                 ~( pc[u] \in {"writer", "reader"} /\ handle[u] = l )

ReadsLedger(u, l) ==
    \/ /\ handle[u] = l
       /\ \/ \E v \in ConcVersions : BookedContains(u, v, TRUE)
          \/ BookedLast(u, TRUE)
          \/ ReadGuard(u, TRUE)
    \/ /\ pc[u] \in {"bookie_contains", "bookie_last"}
       /\ registry[arg[u].actor] = l
       /\ (BookieContainsRead(u) \/ BookieLastRead(u))

\* C16: a BookWriter excludes every other reader and writer of its ledger,
\* and each merging insert through it stores the union of the seqs.
C16_InsertsLinearize ==
    /\ []WriterExcludes
    /\ [][ \A t \in Tasks, l \in LedgerIds :
             HoldsWriter(t, l)
             => /\ \A u \in Tasks \ {t} : ~ReadsLedger(u, l)
                /\ ledgers'[l] # ledgers[l]
                     => \E v \in ConcVersions, s \in ConcStates : WriterInsert(t, v, s)
                /\ \A v \in ConcVersions, s \in ConcStates :
                     LET old == ValueAt(ledgers[l], v)
                     IN  ( /\ WriterInsert(t, v, s)
                           /\ old.tag = "Partial"
                           /\ old.last_seq = s.last_seq /\ old.ts = s.ts )
                         => /\ res'[t].kind # "panic"
                            /\ ValueAt(ledgers'[l], v)
                                 = Partial(old.seqs \cup s.seqs, s.last_seq, s.ts)
           ]_vars

\* one task has merged the fragments {0} and {1} through its BookWriter while
\* another task waits in Booked::write for the same ledger
C16_Witness ==
    \E t \in Tasks, u \in Tasks, l \in LedgerIds :
        /\ t # u
        /\ HoldsWriter(t, l)
        /\ pc[u] = "write" /\ handle[u] = l
        /\ ValueAt(ledgers[l], 1) = Partial({0, 1}, 1, 1)

(***************************************************************************)
(* C17: Bookie::for_actor for an actor already in the registry only does a *)
(* shared-mode lookup: whenever the registry lock can be read-locked (no   *)
(* writer holds it or waits for it) the call can run, whatever readers     *)
(* (Bookie::contains, Bookie::last, Bookie::add's lookup) hold the lock.   *)
(***************************************************************************)
C17_ForActorSharedLookup ==
    \A t \in Tasks :
        ( /\ pc[t] = "for_actor"
          /\ registry[arg[t].actor] # None
          /\ CanRead(regLock) )
        => ENABLED ForActorRun(t)

(***************************************************************************)
(* C18: on each channel, what the receiver has taken followed by what      *)
(* still waits in the channel is exactly the sequence of the items passed  *)
(* to notify / send_to / submit_after while the channel was not full, in   *)
(* call order and unaltered (send_to: the same destination and the same    *)
(* bytes).  So the items taken are a subsequence of the items passed, an   *)
(* item is missing only if the channel was full at its call, none is       *)
(* delivered twice, and with a channel that is never full none is missing. *)
(***************************************************************************)
Accepted(c) ==
    LET log == SelectSeq(passed[c], LAMBDA p : ~p.full)
    IN  [i \in 1..Len(log) |-> log[i].item]

HoldsRegistry(t) == regLock.w = t \/ t \in regLock.r

HoldsLedger(t) == \E l \in LedgerIds : ledLock[l].w = t \/ t \in ledLock[l].r

LockOrder ==
    \A t \in Tasks :
        /\ pc[t] \in {"idle", "for_actor", "add_slow"}
             => ~HoldsRegistry(t) /\ ~HoldsLedger(t)
        /\ HoldsLedger(t) => pc[t] \notin {"for_actor", "add_slow"}

\* C19: every call that has begun returns, and the registry lock is only
\* taken by a task that holds no lock.
C19_EveryCallReturns ==
    /\ \A t \in Tasks : (pc[t] # "idle") ~> (pc[t] = "idle")
    /\ []LockOrder

\* a for_actor waits, announced, behind a reader of the registry while an add
\* that missed waits for the exclusive lock too
C19_Witness ==
    \E t \in Tasks, u \in Tasks, w \in Tasks :
        /\ pc[t] = "for_actor" /\ regLock.pw = t
        /\ u \in regLock.r
        /\ pc[w] = "add_slow"

(***************************************************************************)
(* C20: Message::encode appends one frame to the buffer: the bytes the     *)
(* buffer held before the call stay where they are, unchanged, and the     *)
(* bytes added after them are the frame of the message alone, the same     *)
(* frame that encoding it into an empty buffer gives.                      *)
(***************************************************************************)
C20_EncodeAppendsFrame ==
    [][ \A m \in Messages :
          EncodeCall(m) => buf' = buf \o encode(m, <<>>).buf ]_vars

====
